---------------------------- MODULE Spec2Model ----------------------------
(***************************************************************************)
(* Model of the pencil-sketch pipeline of sketch/views.py                   *)
(* (_pencil_sketch), of the dashboard POST handler that stores its result   *)
(* and of the resize step of download_all.                                  *)
(*                                                                         *)
(* An image is a record [mode, size, data]: mode is "RGB" or "L", size is   *)
(* <<width, height>> and data is the raster in row-major order, one         *)
(* <<r, g, b>> triple per pixel for "RGB" and one 0..255 value per pixel    *)
(* for "L".  The Pillow and numpy calls of the source are modelled by what  *)
(* they compute on 8-bit rasters.  Where numpy computes in float32 and      *)
(* truncates to uint8 the model computes the exact rational and takes its   *)
(* floor.                                                                   *)
(***************************************************************************)
EXTENDS Integers, Sequences, FiniteSets, TLC

(***************************************************************************)
(* Arithmetic helpers.                                                      *)
(***************************************************************************)
Min(a, b) == IF a <= b THEN a ELSE b

Max(a, b) == IF a >= b THEN a ELSE b

Abs(a) == IF a < 0 THEN -a ELSE a

\* np.clip(v, 0, 255) and Pillow's clip8.
Clip8(v) == Max(0, Min(255, v))

\* C integer division, which truncates toward zero.
TruncDiv(a, b) == IF a >= 0 THEN a \div b ELSE -((-a) \div b)

\* The sequence f with every element evaluated once (a function expression
\* is otherwise evaluated anew at each application).
AsArray(f) == SubSeq(f, 1, Len(f))

RECURSIVE SumSeq(_)
SumSeq(s) == IF s = <<>> THEN 0 ELSE Head(s) + SumSeq(Tail(s))

(***************************************************************************)
(* Rasters.                                                                 *)
(***************************************************************************)
Width(im) == im.size[1]

Height(im) == im.size[2]

NumPixels(im) == Width(im) * Height(im)

\* Pixel (x, y), 0-based as in Pillow, of a row-major raster of width w.
At(data, w, x, y) == data[y * w + x + 1]

\* Coordinates clamped into the raster: how ImagingExpand and the box blur
\* replicate the edge pixels.
Clamp(v, n) == Max(0, Min(n - 1, v))

XOf(i, w) == (i - 1) % w

YOf(i, w) == (i - 1) \div w

\* Image.fromarray(arr.astype(np.uint8)) of a 2-D array: an "L" image.
FromArray(size, values) == [mode |-> "L", size |-> size, data |-> AsArray(values)]


(***************************************************************************)
(* Pillow operations used by _pencil_sketch.                                *)
(***************************************************************************)
\* Pillow's L24 luma: (19595 R + 38470 G + 7471 B + 0x8000) >> 16.
Luma(p) == (19595 * p[1] + 38470 * p[2] + 7471 * p[3] + 32768) \div 65536

\* Image.convert(mode) between "RGB" and "L".
Convert(im, mode) ==
    IF im.mode = mode THEN im
    ELSE IF mode = "L"
         THEN [mode |-> "L", size |-> im.size,
               data |-> AsArray([i \in DOMAIN im.data |-> Luma(im.data[i])])]
         ELSE [mode |-> "RGB", size |-> im.size,
               data |-> AsArray([i \in DOMAIN im.data |->
                           <<im.data[i], im.data[i], im.data[i]>>])]

\* ImageOps.grayscale(image).
Grayscale(im) == Convert(im, "L")

\* ImageOps.invert(image) of an "L" image.
Invert(im) ==
    [im EXCEPT !.data = AsArray([i \in DOMAIN im.data |-> 255 - im.data[i]])]

Values(data) == {data[i] : i \in DOMAIN data}

CountLE(data, v) == Cardinality({i \in DOMAIN data : data[i] <= v})

CountGE(data, v) == Cardinality({i \in DOMAIN data : data[i] >= v})

\* The element of rank k (0-based) of the sorted values of data.
KthSmallest(data, k) ==
    CHOOSE v \in Values(data) :
        /\ CountLE(data, v) >= k + 1
        /\ \A u \in Values(data) : CountLE(data, u) >= k + 1 => v <= u

\* ImageOps.autocontrast(image, cutoff) of an "L" image; cutoff10 is the
\* cutoff in tenths of a percent.  n * cutoff // 100 pixels are dropped from
\* each end of the histogram, lo and hi are the lowest and highest values
\* left, and the lookup table stretches lo..hi to 0..255 (the identity when
\* hi <= lo).
AutocontrastCut(im, cutoff10) == (NumPixels(im) * cutoff10) \div 1000

AutocontrastLo(im, cutoff10) ==
    CHOOSE v \in Values(im.data) :
        /\ CountLE(im.data, v) > AutocontrastCut(im, cutoff10)
        /\ \A u \in Values(im.data) :
              CountLE(im.data, u) > AutocontrastCut(im, cutoff10) => v <= u

AutocontrastHi(im, cutoff10) ==
    CHOOSE v \in Values(im.data) :
        /\ CountGE(im.data, v) > AutocontrastCut(im, cutoff10)
        /\ \A u \in Values(im.data) :
              CountGE(im.data, u) > AutocontrastCut(im, cutoff10) => v >= u

AutocontrastLut(lo, hi, v) ==
    IF hi <= lo THEN v
    ELSE IF v <= lo THEN 0
    ELSE Min(255, ((v - lo) * 255) \div (hi - lo))

Autocontrast(im, cutoff10) ==
    LET lo == AutocontrastLo(im, cutoff10)
        hi == AutocontrastHi(im, cutoff10)
    IN  [im EXCEPT !.data =
            AsArray([i \in DOMAIN im.data |-> AutocontrastLut(lo, hi, im.data[i])])]

\* ImageFilter.GaussianBlur(radius): Pillow runs three box-blur passes along
\* the rows and three along the columns.  A pass of box radius r + fraction
\* weighs the 2r + 1 pixels around a pixel by ww and the two pixels beyond
\* them by fw (24-bit fixed point), the edge pixels standing in for what lies
\* outside the line.  BoxKernel gives r, ww and fw as Pillow derives them
\* from the Gaussian radius (in tenths).
BoxKernel(radius10) ==
    CASE radius10 = 220 -> [radius |-> 21, ww |-> 381497, fw |-> 186422]
      [] radius10 = 14 -> [radius |-> 0, ww |-> 5816102, fw |-> 5480557]
      [] radius10 = 16 -> [radius |-> 1, ww |-> 5279230, fw |-> 469763]
      [] radius10 = 32 -> [radius |-> 2, ww |-> 2677963, fw |-> 1693700]
      [] radius10 = 20 -> [radius |-> 1, ww |-> 4473924, fw |-> 1677722]
      [] radius10 = 12 -> [radius |-> 0, ww |-> 8724152, fw |-> 4026532]
      [] radius10 = 15 -> [radius |-> 1, ww |-> 5452595, fw |-> 209715]
      [] radius10 = 11 -> [radius |-> 0, ww |-> 10010405, fw |-> 3383405]

\* How many of the window positions x - r .. x + r fall on pixel j of a line
\* of n pixels once clamped.
WindowCount(j, x, n, r) ==
    IF n = 1 THEN 2 * r + 1
    ELSE IF j = 0 THEN Max(0, r - x + 1)
    ELSE IF j = n - 1 THEN Max(0, r - (n - 1 - x) + 1)
    ELSE IF Abs(j - x) <= r THEN 1 ELSE 0

\* (ww * acc + fw * far + 2^23) >> 24, computed in two 12-bit halves.
BoxBlurPixel(line, x, k) ==
    LET n == Len(line)
        acc == SumSeq(AsArray([j \in 1..n |->
                    line[j] * WindowCount(j - 1, x, n, k.radius)]))
        far == line[Clamp(x - k.radius - 1, n) + 1] + line[Clamp(x + k.radius + 1, n) + 1]
        hi == (k.ww \div 4096) * acc + (k.fw \div 4096) * far + 2048
        lo == (k.ww % 4096) * acc + (k.fw % 4096) * far
    IN  (hi + (lo \div 4096)) \div 4096

BoxBlurLine(line, k) ==
    AsArray([j \in 1..Len(line) |-> BoxBlurPixel(line, j - 1, k)])

Row(data, w, y) == AsArray([j \in 1..w |-> At(data, w, j - 1, y)])

Column(data, w, h, x) == AsArray([j \in 1..h |-> At(data, w, x, j - 1)])

HorizontalBoxBlur(im, k) ==
    LET w == Width(im)
        rows == AsArray([y \in 1..Height(im) |->
                            BoxBlurLine(Row(im.data, w, y - 1), k)])
    IN  [im EXCEPT !.data =
            AsArray([i \in DOMAIN im.data |-> rows[YOf(i, w) + 1][XOf(i, w) + 1]])]

VerticalBoxBlur(im, k) ==
    LET w == Width(im)
        cols == AsArray([x \in 1..w |->
                            BoxBlurLine(Column(im.data, w, Height(im), x - 1), k)])
    IN  [im EXCEPT !.data =
            AsArray([i \in DOMAIN im.data |-> cols[XOf(i, w) + 1][YOf(i, w) + 1]])]

GaussianBlur(im, radius10) ==
    LET k == BoxKernel(radius10)
        h3 == HorizontalBoxBlur(HorizontalBoxBlur(HorizontalBoxBlur(im, k), k), k)
    IN  VerticalBoxBlur(VerticalBoxBlur(VerticalBoxBlur(h3, k), k), k)

\* ImageFilter.UnsharpMask(radius, percent, threshold): a pixel differing
\* from its Gaussian blur by more than the threshold moves away from the
\* blur by percent of the difference.
UnsharpMask(im, radius10, percent, threshold) ==
    LET blur == GaussianBlur(im, radius10)
    IN  [im EXCEPT !.data =
            AsArray([i \in DOMAIN im.data |->
                LET diff == im.data[i] - blur.data[i]
                IN  IF Abs(diff) > threshold
                    THEN Clip8(im.data[i] + TruncDiv(diff * percent, 100))
                    ELSE im.data[i]])]

\* The 3x3 neighbourhood of pixel i, the image expanded by one replicated
\* pixel on every side (ImageFilter.RankFilter expands before it ranks).
Neighbourhood(im, i) ==
    LET w == Width(im)
        h == Height(im)
        x == XOf(i, w)
        y == YOf(i, w)
    IN  AsArray([j \in 1..9 |->
            At(im.data, w, Clamp(x + ((j - 1) % 3) - 1, w),
                           Clamp(y + ((j - 1) \div 3) - 1, h))])

RankFilter(im, rank) ==
    [im EXCEPT !.data =
        AsArray([i \in DOMAIN im.data |-> KthSmallest(Neighbourhood(im, i), rank)])]

\* ImageFilter.MedianFilter(size=3): rank size * size // 2.
MedianFilter(im) == RankFilter(im, 4)

\* ImageFilter.MaxFilter(size=3): rank size * size - 1.
MaxFilter(im) == RankFilter(im, 8)

\* ImageFilter.FIND_EDGES: the 3x3 kernel (-1 ... 8 ... -1), scale 1.  Pillow
\* copies the border pixels from the input, and the whole image when it is
\* smaller than the kernel.
FindEdges(im) ==
    LET w == Width(im)
        h == Height(im)
    IN  IF w < 3 \/ h < 3 THEN im
        ELSE [im EXCEPT !.data =
                AsArray([i \in DOMAIN im.data |->
                    IF \/ XOf(i, w) = 0 \/ XOf(i, w) = w - 1
                       \/ YOf(i, w) = 0 \/ YOf(i, w) = h - 1
                    THEN im.data[i]
                    ELSE Clip8(9 * im.data[i] - SumSeq(Neighbourhood(im, i)))])]

(***************************************************************************)
(* Image.thumbnail((cap, cap)): never enlarges; otherwise the long edge     *)
(* becomes cap and the short edge is the floor or the ceiling of its exact  *)
(* scaled length, whichever keeps the aspect ratio closer (the floor on a   *)
(* tie, as min() returns its first argument), and at least 1.               *)
(***************************************************************************)
\* round_aspect(y * aspect, key = |aspect - n / y|), aspect = w / h.
RoundAspectX(w, h, cap) ==
    LET f == (cap * w) \div h
        c == IF (cap * w) % h = 0 THEN f ELSE f + 1
    IN  Max(IF Abs(w * cap - f * h) <= Abs(w * cap - c * h) THEN f ELSE c, 1)

\* round_aspect(x / aspect, key = 0 if n == 0 else |aspect - x / n|).
RoundAspectY(w, h, cap) ==
    LET f == (cap * h) \div w
        c == IF (cap * h) % w = 0 THEN f ELSE f + 1
    IN  Max(IF f = 0 \/ Abs(w * f - cap * h) * c <= Abs(w * c - cap * h) * f
            THEN f ELSE c, 1)

\* A resize that clips each edge to the cap on its own.
ThumbnailSizeSquash(size, cap) == <<Min(size[1], cap), Min(size[2], cap)>>

\* A resize that always brings the long edge to the cap.
ThumbnailSizeStretch(size, cap) ==
    IF size[2] >= size[1]
    THEN <<RoundAspectX(size[1], size[2], cap), cap>>
    ELSE <<cap, RoundAspectY(size[1], size[2], cap)>>

ThumbnailSize(size, cap) ==
    IF cap >= size[1] /\ cap >= size[2] THEN size
    ELSE IF size[2] >= size[1]
         THEN <<RoundAspectX(size[1], size[2], cap), cap>>
         ELSE <<cap, RoundAspectY(size[1], size[2], cap)>>

\* The image after image.thumbnail((cap, cap)).  The rasters of the model
\* are smaller than every cap, so the resampled raster is never needed.
Thumbnail(im, cap) == [im EXCEPT !.size = ThumbnailSize(im.size, cap)]

(***************************************************************************)
(* The stages of _pencil_sketch.                                            *)
(***************************************************************************)
LoadCap == 1800

\* image = Image.open(image_file).convert("RGB"); image.thumbnail((1800, 1800))
LoadImage(image_file) == Thumbnail(Convert(image_file, "RGB"), LoadCap)

\* gray = autocontrast(grayscale(image), cutoff=1)
GrayBase(image) == Autocontrast(Grayscale(image), 10)

\* dodge = clip(gray * 255 / (255 - blur(invert(gray), 22) + 1e-4), 0, 255)
DodgeImage(gray) ==
    LET blurred == GaussianBlur(Invert(gray), 220)
    IN  FromArray(gray.size,
            [i \in DOMAIN gray.data |->
                Clip8((gray.data[i] * 255 * 10000)
                      \div ((255 - blurred.data[i]) * 10000 + 1))])

\* sharp = dodge_img.filter(UnsharpMask(radius=2, percent=180, threshold=2))
Sharpen(dodge_img) == UnsharpMask(dodge_img, 20, 180, 2)

\* np.random.normal(loc=128, scale=18): the generator's stream of samples,
\* already clipped to 0..255 and truncated to uint8.
NoiseTable == <<128, 146, 110, 137, 119, 155, 101>>

NoiseSample(k) == NoiseTable[(k % Len(NoiseTable)) + 1]

\* The texture drawn when the generator, seeded with seed, has already
\* produced drawn samples.
DrawTexture(size, seed, drawn) ==
    GaussianBlur(FromArray(size,
        [i \in 1..(size[1] * size[2]) |-> NoiseSample(seed + drawn + i - 1)]), 14)

\* base_sketch = fromarray(clip(0.85 * sharp + 0.15 * texture)).convert("RGB")
BaseSketch(sharp, texture) ==
    Convert(FromArray(sharp.size,
        [i \in DOMAIN sharp.data |->
            Clip8((85 * sharp.data[i] + 15 * texture.data[i]) \div 100)]), "RGB")

\* np.percentile(edges_arr, 92.0), times 100: linear interpolation between
\* the two sorted values around rank 0.92 * (n - 1).
Percentile92x100(data) ==
    LET k == 92 * (Len(data) - 1)
        below == KthSmallest(data, k \div 100)
    IN  IF k % 100 = 0 THEN 100 * below
        ELSE 100 * below + (k % 100) * (KthSmallest(data, (k \div 100) + 1) - below)

\* lines = 255 everywhere, 60 where edges_arr >= threshold.
LineArray(edges) ==
    LET threshold100 == Percentile92x100(edges.data)
    IN  FromArray(edges.size,
            [i \in DOMAIN edges.data |->
                IF 100 * edges.data[i] >= threshold100 THEN 60 ELSE 255])

TraceEdges(gray) ==
    Autocontrast(FindEdges(GaussianBlur(MedianFilter(gray), 16)), 10)

TraceStyle(gray) == Convert(MaxFilter(LineArray(TraceEdges(gray))), "RGB")

ArtisticStyle(gray, luminance) ==
    LET strokes == UnsharpMask(Autocontrast(FindEdges(gray), 20), 12, 250, 1)
        mixed == FromArray(gray.size,
                    [i \in DOMAIN gray.data |->
                        Clip8((65 * luminance.data[i] + 35 * strokes.data[i]) \div 100)])
    IN  Convert(UnsharpMask(mixed, 15, 160, 2), "RGB")

\* The clean branch without its convert("RGB").
CleanStyleGrey(luminance) ==
    UnsharpMask(Autocontrast(luminance, 5), 11, 140, 2)

CleanStyle(luminance) ==
    Convert(UnsharpMask(Autocontrast(luminance, 5), 11, 140, 2), "RGB")

\* The style branch: the styled image.
StyleSketch(sketch_style, gray, base_sketch) ==
    IF sketch_style = "trace" THEN TraceStyle(gray)
    ELSE IF sketch_style = "artistic"
         THEN ArtisticStyle(gray, Convert(base_sketch, "L"))
         ELSE CleanStyle(Convert(base_sketch, "L"))

\* A style branch that leaves sketch_depth as requested.
DepthKept(sketch_style, sketch_depth) == sketch_depth

\* sketch_depth after the style branch: trace overrides it.
DepthAfterStyle(sketch_style, sketch_depth) ==
    IF sketch_style = "trace" THEN "none" ELSE sketch_depth

\* A strength table with medium and deep exchanged.
ShadeStrengthSwapped(sketch_depth) ==
    CASE sketch_depth = "none" -> 0
      [] sketch_depth = "light" -> 22
      [] sketch_depth = "medium" -> 55
      [] sketch_depth = "deep" -> 38
      [] OTHER -> 38

\* shade_strength, in hundredths: {...}.get(sketch_depth, 0.38)
ShadeStrength(sketch_depth) ==
    CASE sketch_depth = "none" -> 0
      [] sketch_depth = "light" -> 22
      [] sketch_depth = "medium" -> 38
      [] sketch_depth = "deep" -> 55
      [] OTHER -> 38

\* tone = autocontrast(gray.filter(GaussianBlur(3.2)), cutoff=2)
ToneLayer(gray) == Autocontrast(GaussianBlur(gray, 32), 20)

\* (1 - 0.35 s) * sketch + s * tone, times 10000, s in hundredths.
ShadeBlend(s, sketch_value, tone_value) ==
    (10000 - 35 * s) * sketch_value + 100 * s * tone_value

\* The depth stage: skipped when shade_strength is 0.
DepthShade(sketch, gray, sketch_depth) ==
    LET s == ShadeStrength(sketch_depth)
        tone == ToneLayer(gray)
        lum == Convert(sketch, "L")
        shaded == FromArray(sketch.size,
                    [i \in DOMAIN lum.data |->
                        Clip8(ShadeBlend(s, lum.data[i], tone.data[i]) \div 10000)])
    IN  IF s > 0 THEN Convert(Autocontrast(shaded, 10), "RGB") ELSE sketch

\* size_map.get(output_size, None); 0 stands for None.
SizeMap(output_size) ==
    CASE output_size = "orig" -> 0
      [] output_size = "lg" -> 1600
      [] output_size = "md" -> 1024
      [] output_size = "sm" -> 720
      [] output_size = "xs" -> 480
      [] OTHER -> 0

\* if target_max: sketch.thumbnail((target_max, target_max))
OutputResize(sketch, output_size) ==
    IF SizeMap(output_size) # 0 THEN Thumbnail(sketch, SizeMap(output_size))
    ELSE sketch

\* _pencil_sketch as a function of its arguments and of what the global
\* generator has produced before the call.
PencilSketch(file, style, depth, size, seed, drawn) ==
    LET image == LoadImage(file)
        gray == GrayBase(image)
        sharp == Sharpen(DodgeImage(gray))
        base_sketch == BaseSketch(sharp, DrawTexture(sharp.size, seed, drawn))
        styled == StyleSketch(style, gray, base_sketch)
    IN  OutputResize(DepthShade(styled, gray, DepthAfterStyle(style, depth)), size)

(***************************************************************************)
(* State.                                                                   *)
(***************************************************************************)
VARIABLES
    image_file,     \* the uploaded image the calls of a run are made for
    sketch_style,   \* the sketch_style argument of those calls
    output_size,    \* the output_size argument of those calls
    rng,            \* numpy's global generator, shared by every call
    call,           \* the frame of each _pencil_sketch call
    header,         \* mode and size of a large image going through the pipeline
    export,         \* download_all: the stored sketch being resized for the zip
    request,        \* the dashboard POST requests
    files,          \* the sketch files in storage
    rows            \* the SketchWork rows in the database

vars == <<image_file, sketch_style, output_size, rng, call, header, export,
          request, files, rows>>

pipelineVars == <<image_file, sketch_style, output_size, rng, call>>

sizeVars == <<header, export>>

dashVars == <<request, files, rows>>

(***************************************************************************)
(* The argument values of the upload form (forms.py).                       *)
(***************************************************************************)
Styles == {"artistic", "clean", "trace"}

Depths == {"none", "light", "medium", "deep"}

OutputSizes == {"orig", "lg", "md", "sm", "xs"}

\* _pencil_sketch itself accepts any string; one value outside each list.
StyleArgs == Styles \cup {"sepia"}

SizeArgs == OutputSizes \cup {"huge"}

(***************************************************************************)
(* Uploaded images small enough to carry their raster.                      *)
(***************************************************************************)
Solid(w, h, colour) ==
    [mode |-> "RGB", size |-> <<w, h>>, data |-> AsArray([i \in 1..(w * h) |-> colour])]

Greys(w, h, values) ==
    [mode |-> "RGB", size |-> <<w, h>>,
     data |-> AsArray([i \in 1..(w * h) |-> <<values[i], values[i], values[i]>>])]

White == <<255, 255, 255>>

Black == <<0, 0, 0>>

\* Uploads explored with two concurrent calls.
PairUploads ==
    { Solid(1, 1, White), Solid(1, 1, Black), Greys(2, 1, <<40, 200>>) }

\* Uploads explored with one call.
Uploads ==
    PairUploads \cup
    { Solid(1, 1, <<128, 128, 128>>),
      Solid(2, 2, <<200, 30, 60>>),
      Greys(1, 3, <<30, 90, 220>>),
      Solid(3, 3, <<120, 120, 120>>),
      Greys(3, 3, <<200, 200, 200, 200, 20, 200, 200, 200, 200>>),
      Greys(3, 3, <<10, 50, 90, 130, 170, 210, 250, 30, 70>>) }

\* The largest seed the generator may start from.
MaxSeed == 1

NoImage == [mode |-> "L", size |-> <<0, 0>>, data |-> <<>>]

IdleFrame ==
    [pc |-> "idle", depth_arg |-> "none", sketch_depth |-> "none",
     image |-> NoImage, gray |-> NoImage, sharp |-> NoImage,
     base_sketch |-> NoImage, sketch |-> NoImage, lum |-> NoImage,
     tone |-> NoImage, shaded |-> FALSE]

\* A large image is followed by its mode and size alone.
IdleHeader ==
    [pc |-> "idle", input |-> <<0, 0>>, output_size |-> "orig",
     loaded |-> [mode |-> "none", size |-> <<0, 0>>],
     sketch |-> [mode |-> "none", size |-> <<0, 0>>]]

IdleExport ==
    [pc |-> "idle", size_code |-> "orig",
     stored |-> [mode |-> "none", size |-> <<0, 0>>],
     img |-> [mode |-> "none", size |-> <<0, 0>>]]

\* The browsers posting to the dashboard.
Clients == {"r1", "r2"}

\* What a browser may post as the image: bytes that are no image at all,
\* an image file cut short after its header, and a sound image.
Garbage == [kind |-> "garbage", pixels |-> 0]

Truncated == [kind |-> "truncated", pixels |-> 0]

Sound == [kind |-> "image", pixels |-> 1]

PostedUploads == {Garbage, Truncated, Sound}

NoUrl == ""

IdleRequest ==
    [pc |-> "idle", post |-> 0, upload |-> Garbage, result_url |-> NoUrl,
     message |-> ""]

(***************************************************************************)
(* _pencil_sketch, one action per stage.                                    *)
(***************************************************************************)
\* Lines 18-21: the call is made and the image opened.
Open(c, depth) ==
    /\ call[c].pc = "idle"
    /\ call' = [call EXCEPT ![c] =
                   [@ EXCEPT !.pc = "tone", !.depth_arg = depth,
                             !.sketch_depth = depth,
                             !.image = LoadImage(image_file)]]
    /\ UNCHANGED <<image_file, sketch_style, output_size, rng, sizeVars, dashVars>>

\* Lines 24-36: grayscale base, dodge blend, sharpening.
Tone(c) ==
    /\ call[c].pc = "tone"
    /\ LET gray == GrayBase(call[c].image)
       IN  call' = [call EXCEPT ![c] =
                       [@ EXCEPT !.pc = "grain", !.gray = gray,
                                 !.sharp = Sharpen(DodgeImage(gray))]]
    /\ UNCHANGED <<image_file, sketch_style, output_size, rng, sizeVars, dashVars>>

\* Lines 39-47: the paper grain is drawn from the global generator, which
\* moves on by one sample per pixel.
Grain(c) ==
    /\ call[c].pc = "grain"
    /\ LET sharp == call[c].sharp
           texture == DrawTexture(sharp.size, rng.seed, rng.drawn)
       IN  call' = [call EXCEPT ![c] =
                       [@ EXCEPT !.pc = "style",
                                 !.base_sketch = BaseSketch(sharp, texture)]]
    /\ rng' = [rng EXCEPT !.drawn = @ + NumPixels(call[c].sharp)]
    /\ UNCHANGED <<image_file, sketch_style, output_size, sizeVars, dashVars>>

\* Lines 50-80: the style branch; trace overrides sketch_depth.
Style(c) ==
    /\ call[c].pc = "style"
    /\ call' = [call EXCEPT ![c] =
                   [@ EXCEPT !.pc = "depth",
                             !.sketch = StyleSketch(sketch_style, call[c].gray,
                                                    call[c].base_sketch),
                             !.sketch_depth = DepthAfterStyle(sketch_style, @)]]
    /\ UNCHANGED <<image_file, sketch_style, output_size, rng, sizeVars, dashVars>>

\* Lines 83-92: the depth shader; lum and tone are its locals.
Depth(c) ==
    /\ call[c].pc = "depth"
    /\ LET run == ShadeStrength(call[c].sketch_depth) > 0
       IN  call' = [call EXCEPT ![c] =
                       [@ EXCEPT !.pc = "resize",
                                 !.sketch = DepthShade(@, call[c].gray,
                                                       call[c].sketch_depth),
                                 !.lum = IF run THEN Convert(call[c].sketch, "L") ELSE @,
                                 !.tone = IF run THEN ToneLayer(call[c].gray) ELSE @,
                                 !.shaded = run]]
    /\ UNCHANGED <<image_file, sketch_style, output_size, rng, sizeVars, dashVars>>

\* Lines 95-100: the optional resize and the return.
Resize(c) ==
    /\ call[c].pc = "resize"
    /\ call' = [call EXCEPT ![c] =
                   [@ EXCEPT !.pc = "done",
                             !.sketch = OutputResize(@, output_size)]]
    /\ UNCHANGED <<image_file, sketch_style, output_size, rng, sizeVars, dashVars>>

\* The output sizes explored with two concurrent calls.
PairSizes == {"orig", "sm"}

PipelineInit(uploads, styles, sizes, calls) ==
    /\ image_file \in uploads
    /\ sketch_style \in styles
    /\ output_size \in sizes
    /\ rng \in [seed : 0..MaxSeed, drawn : {0}]
    /\ call = [c \in calls |-> IdleFrame]
    /\ header = IdleHeader
    /\ export = IdleExport
    /\ request = [r \in Clients |-> IdleRequest]
    /\ files = {}
    /\ rows = {}

\* One call of _pencil_sketch.
Init == PipelineInit(Uploads, StyleArgs, OutputSizes, {"c1"})

\* The steps of call c.
Step(c) ==
    \/ \E depth \in Depths : Open(c, depth)
    \/ Tone(c)
    \/ Grain(c)
    \/ Style(c)
    \/ Depth(c)
    \/ Resize(c)

Next == Step("c1")

Spec == Init /\ [][Next]_vars

\* Two calls in one process, interleaved.
InitPair == PipelineInit(PairUploads, Styles, PairSizes, {"c1", "c2"})

NextPair == Step("c1") \/ Step("c2")

SpecPair == InitPair /\ [][NextPair]_vars

(***************************************************************************)
(* The sizes of large images: _pencil_sketch seen through the mode and the  *)
(* size of its image, and download_all resizing the stored sketch.          *)
(***************************************************************************)
\* The long-edge caps of the program.
Caps == {LoadCap} \cup {SizeMap(s) : s \in OutputSizes \ {"orig"}}

\* How far around each cap the explored edge lengths go.
Spread == 1

\* The edge lengths explored.
Dims ==
    {1, 5, 360, 1000, 2000, 2025, 3601}
        \cup UNION {(cap - Spread)..(cap + Spread) : cap \in Caps}

\* Lines 18-21: open, convert("RGB"), thumbnail((1800, 1800)).
HeaderOpen(w, h, size) ==
    /\ header.pc = "idle"
    /\ LET image == Thumbnail([mode |-> "RGB", size |-> <<w, h>>], LoadCap)
       IN  header' = [pc |-> "stages", input |-> <<w, h>>, output_size |-> size,
                      loaded |-> image, sketch |-> image]
    /\ UNCHANGED <<pipelineVars, export, dashVars>>

\* Lines 24-92: every stage works pixel by pixel on arrays of the size of
\* the loaded image and ends in convert("RGB").
HeaderStages ==
    /\ header.pc = "stages"
    /\ header' = [header EXCEPT !.pc = "resize"]
    /\ UNCHANGED <<pipelineVars, export, dashVars>>

\* Lines 95-100: the optional resize and the return.
HeaderResize ==
    /\ header.pc = "resize"
    /\ header' = [header EXCEPT !.pc = "done",
                                !.sketch = OutputResize(@, header.output_size)]
    /\ UNCHANGED <<pipelineVars, export, dashVars>>

\* download_all._resize_if_needed(image_file, filename): the image in the zip.
ResizeIfNeeded(stored, size_code) ==
    IF SizeMap(size_code) = 0 THEN stored
    ELSE Thumbnail([stored EXCEPT !.mode = "RGB"], SizeMap(size_code))

\* download_all, lines 279-287: the size code of the request is read; the
\* stored sketch is what _pencil_sketch returned to the dashboard.
ExportOpen(size_code) ==
    /\ header.pc = "done"
    /\ export.pc = "idle"
    /\ export' = [pc |-> "resize", size_code |-> size_code,
                  stored |-> header.sketch, img |-> header.sketch]
    /\ UNCHANGED <<pipelineVars, header, dashVars>>

\* download_all, lines 289-307: the stored sketch is resized for the zip.
ExportResize ==
    /\ export.pc = "resize"
    /\ export' = [export EXCEPT !.pc = "done",
                                !.img = ResizeIfNeeded(export.stored, export.size_code)]
    /\ UNCHANGED <<pipelineVars, header, dashVars>>

InitSize ==
    /\ image_file = NoImage
    /\ sketch_style = "artistic"
    /\ output_size = "orig"
    /\ rng = [seed |-> 0, drawn |-> 0]
    /\ call = [c \in {"c1"} |-> IdleFrame]
    /\ header = IdleHeader
    /\ export = IdleExport
    /\ request = [r \in Clients |-> IdleRequest]
    /\ files = {}
    /\ rows = {}

NextSize ==
    \/ \E w \in Dims, h \in Dims, size \in SizeArgs : HeaderOpen(w, h, size)
    \/ HeaderStages
    \/ HeaderResize
    \/ \E size_code \in SizeArgs : ExportOpen(size_code)
    \/ ExportResize

SpecSize == InitSize /\ [][NextSize]_vars

(***************************************************************************)
(* The dashboard POST handler.                                              *)
(***************************************************************************)
\* The number of POST requests explored.
MaxPosts == 2

\* form.is_valid(): the ImageField rejects bytes Pillow cannot identify.
FormIsValid(upload) == upload.kind # "garbage"

\* Image.open(image_file).convert("RGB") raises on a file cut short.
Decodable(upload) == upload.kind = "image"

\* A handler that carries on after a failed call.
AfterSketchSwallowed(decoded) == "store"

\* Where the handler goes after the call of _pencil_sketch: nothing
\* catches what the call raises.
AfterSketch(decoded) == IF decoded THEN "store" ELSE "failed"

RECURSIVE MaxOf(_)
MaxOf(S) ==
    IF S = {} THEN 0
    ELSE LET x == CHOOSE y \in S : TRUE IN Max(x, MaxOf(S \ {x}))

\* The posts are numbered as they arrive; the number stands for uuid4().hex.
LastPost == MaxOf({request[r].post : r \in Clients})

\* Lines 125-132: a POST arrives and the form is bound.
Post(r, upload) ==
    /\ request[r].pc \in {"idle", "rendered", "failed"}
    /\ LastPost < MaxPosts
    /\ request' = [request EXCEPT ![r] =
                      [pc |-> "validate", post |-> LastPost + 1, upload |-> upload,
                       result_url |-> NoUrl, message |-> ""]]
    /\ UNCHANGED <<pipelineVars, sizeVars, files, rows>>

\* Lines 133 and 154-155: form.is_valid().
Validate(r) ==
    /\ request[r].pc = "validate"
    /\ request' = [request EXCEPT ![r] =
                      IF FormIsValid(@.upload)
                      THEN [@ EXCEPT !.pc = "sketch"]
                      ELSE [@ EXCEPT !.pc = "render",
                                     !.message = "Please upload a valid image file."]]
    /\ UNCHANGED <<pipelineVars, sizeVars, files, rows>>

\* Lines 134-147: the work object is built in memory and _pencil_sketch is
\* called; a decoded image takes its grain from the global generator.
Sketch(r) ==
    /\ request[r].pc = "sketch"
    /\ request' = [request EXCEPT ![r].pc = AfterSketch(Decodable(request[r].upload))]
    /\ rng' = IF Decodable(request[r].upload)
              THEN [rng EXCEPT !.drawn = @ + request[r].upload.pixels]
              ELSE rng
    /\ UNCHANGED <<image_file, sketch_style, output_size, call, sizeVars, files, rows>>

\* Line 148: work.sketch_image.save(name, content, save=False).
StoreFile(r) ==
    /\ request[r].pc = "store"
    /\ files' = files \cup {[post |-> request[r].post]}
    /\ request' = [request EXCEPT ![r].pc = "save"]
    /\ UNCHANGED <<pipelineVars, sizeVars, rows>>

\* Line 149: work.save().
SaveWork(r) ==
    /\ request[r].pc = "save"
    /\ rows' = rows \cup {[id |-> Cardinality(rows) + 1, post |-> request[r].post]}
    /\ request' = [request EXCEPT ![r].pc = "url"]
    /\ UNCHANGED <<pipelineVars, sizeVars, files>>

\* Lines 151-153: result_url and the success message.
Result(r) ==
    /\ request[r].pc = "url"
    /\ request' = [request EXCEPT ![r] =
                      [@ EXCEPT !.pc = "render", !.result_url = "sketch.png",
                                !.message = "Sketch generated successfully."]]
    /\ UNCHANGED <<pipelineVars, sizeVars, files, rows>>

\* Lines 157-189: the page is rendered.
Render(r) ==
    /\ request[r].pc = "render"
    /\ request' = [request EXCEPT ![r].pc = "rendered"]
    /\ UNCHANGED <<pipelineVars, sizeVars, files, rows>>

InitDash == InitSize

Handle(r) ==
    \/ \E upload \in PostedUploads : Post(r, upload)
    \/ Validate(r)
    \/ Sketch(r)
    \/ StoreFile(r)
    \/ SaveWork(r)
    \/ Result(r)
    \/ Render(r)

NextDash == Handle("r1") \/ Handle("r2")

SpecDash == InitDash /\ [][NextDash]_vars

(***************************************************************************)
(* Properties.                                                              *)
(***************************************************************************)
Done(c) == call[c].pc = "done"

\* The cap the returned image has to respect.
RequestedCap(size) == IF SizeMap(size) = 0 THEN LoadCap ELSE SizeMap(size)

LongEdge(size) == Max(size[1], size[2])

\* C1: the returned image has its long edge within the requested cap (1800
\* when no cap is requested) and its short edge within one pixel of the
\* long edge times the input's aspect ratio, after both thumbnail steps;
\* 2000x1000 at size sm comes out as 720x360.
OutputWithinCap ==
    header.pc = "done" =>
        LET W == header.input[1]
            H == header.input[2]
            w == header.sketch.size[1]
            h == header.sketch.size[2]
        IN  /\ LongEdge(header.sketch.size) <= RequestedCap(header.output_size)
            /\ Abs(w * H - h * W) <= Max(W, H)
            /\ (header.input = <<2000, 1000>> /\ header.output_size = "sm")
                   => header.sketch.size = <<720, 360>>

\* C1: a 2000x1000 image has gone through both thumbnail steps at size sm.
OutputWithinCapReached ==
    /\ header.pc = "done"
    /\ header.input = <<2000, 1000>>
    /\ header.loaded.size = <<1800, 900>>
    /\ header.output_size = "sm"
    /\ header.sketch.size = <<720, 360>>

\* C2: with style trace the depth stage never runs, whatever depth was
\* requested, and two calls that differ in the requested depth alone return
\* the same image.
TraceIgnoresDepth ==
    sketch_style = "trace" =>
        /\ \A c \in DOMAIN call :
               call[c].pc \in {"resize", "done"} =>
                   /\ call[c].sketch_depth = "none"
                   /\ ~call[c].shaded
        /\ \A c, d \in DOMAIN call :
               (Done(c) /\ Done(d)) => call[c].sketch = call[d].sketch

\* C2: two trace calls, one asked for no depth and one for deep, have returned.
TraceIgnoresDepthReached ==
    /\ sketch_style = "trace"
    /\ Done("c1") /\ call["c1"].depth_arg = "none"
    /\ Done("c2") /\ call["c2"].depth_arg = "deep"
    /\ call["c1"].sketch = call["c2"].sketch

\* C3: two calls with the same image, style, depth and output size return
\* the same image.
SameInputsSameOutput ==
    \A c, d \in DOMAIN call :
        (Done(c) /\ Done(d) /\ call[c].depth_arg = call[d].depth_arg)
            => call[c].sketch = call[d].sketch

\* C4: the final resize of _pencil_sketch and _resize_if_needed of
\* download_all leave the width and height alone when there is no target or
\* when the long edge is within the target.
ResizeNeverUpscales ==
    /\ (/\ header.pc = "done"
        /\ \/ SizeMap(header.output_size) = 0
           \/ LongEdge(header.loaded.size) <= SizeMap(header.output_size))
           => header.sketch.size = header.loaded.size
    /\ (/\ export.pc = "done"
        /\ \/ SizeMap(export.size_code) = 0
           \/ LongEdge(export.stored.size) <= SizeMap(export.size_code))
           => export.img.size = export.stored.size

\* C4: both resizes have run with a target their image already fits.
ResizeNeverUpscalesReached ==
    /\ header.pc = "done"
    /\ SizeMap(header.output_size) # 0
    /\ LongEdge(header.loaded.size) <= SizeMap(header.output_size)
    /\ export.pc = "done"
    /\ SizeMap(export.size_code) # 0
    /\ LongEdge(export.stored.size) <= SizeMap(export.size_code)
    /\ export.img.size = export.stored.size

\* The sum over the pixels of the absolute difference of two RGB images.
AbsDifference(a, b) ==
    SumSeq(AsArray([i \in DOMAIN a.data |->
        Abs(a.data[i][1] - b.data[i][1]) + Abs(a.data[i][2] - b.data[i][2])
            + Abs(a.data[i][3] - b.data[i][3])]))

\* What call c, its style branch done, returns at the given depth.
OutputAt(c, depth) ==
    OutputResize(DepthShade(call[c].sketch, call[c].gray, depth), output_size)

DifferenceFromNone(c, depth) == AbsDifference(OutputAt(c, depth), OutputAt(c, "none"))

\* C5, as stated: for style artistic or clean the mean absolute difference
\* between the output and the output at depth none strictly increases
\* along none, light, medium, deep.
MonotonicDepth ==
    \A c \in DOMAIN call :
        (call[c].pc = "depth" /\ sketch_style \in {"artistic", "clean"}) =>
            /\ 0 < DifferenceFromNone(c, "light")
            /\ DifferenceFromNone(c, "light") < DifferenceFromNone(c, "medium")
            /\ DifferenceFromNone(c, "medium") < DifferenceFromNone(c, "deep")

\* How far the blend of the depth shader, before clipping and autocontrast,
\* lies from the styled value, times 10000.
BlendDeviation(depth, sketch_value, tone_value) ==
    Abs(ShadeBlend(ShadeStrength(depth), sketch_value, tone_value)
            - 10000 * sketch_value)

\* C5, amended: where the depth shader has run for style artistic or clean,
\* at every pixel whose tone differs from 0.35 times the styled value the
\* blend sketch * (1 - 0.35 s) + tone * s, before clipping and the final
\* autocontrast, moves strictly further from the styled value along none,
\* light, medium, deep.
BlendDeviationGrowsWithDepth ==
    \A c \in DOMAIN call :
        (call[c].shaded /\ sketch_style \in {"artistic", "clean"}) =>
            \A i \in DOMAIN call[c].lum.data :
                LET v == call[c].lum.data[i]
                    t == call[c].tone.data[i]
                IN  100 * t # 35 * v =>
                        /\ BlendDeviation("none", v, t) = 0
                        /\ 0 < BlendDeviation("light", v, t)
                        /\ BlendDeviation("light", v, t) < BlendDeviation("medium", v, t)
                        /\ BlendDeviation("medium", v, t) < BlendDeviation("deep", v, t)

\* C5: the depth shader has run at depth deep on a clean sketch with a
\* pixel whose tone differs from 0.35 times its styled value.
BlendDeviationReached ==
    /\ sketch_style = "clean"
    /\ Done("c1")
    /\ call["c1"].shaded
    /\ call["c1"].depth_arg = "deep"
    /\ \E i \in DOMAIN call["c1"].lum.data :
           100 * call["c1"].tone.data[i] # 35 * call["c1"].lum.data[i]

\* Every pixel of the file has the colour of the first.
IsFlat(file) == \A i \in DOMAIN file.data : file.data[i] = file.data[1]

\* C6: a flat image drawn with style trace comes out with most of its
\* pixels at the background value 255.
FlatTraceMostlyBackground ==
    \A c \in DOMAIN call :
        (Done(c) /\ sketch_style = "trace" /\ IsFlat(image_file)) =>
            2 * Cardinality({i \in DOMAIN call[c].sketch.data :
                                call[c].sketch.data[i] = White})
                > NumPixels(call[c].sketch)

\* C7: a request whose form is invalid or whose image cannot be decoded
\* leaves no sketch file and no SketchWork row behind and has no result URL.
NoPartialOutput ==
    \A r \in Clients :
        (/\ request[r].pc # "idle"
         /\ ~(FormIsValid(request[r].upload) /\ Decodable(request[r].upload))) =>
            /\ request[r].result_url = NoUrl
            /\ \A f \in files : f.post # request[r].post
            /\ \A w \in rows : w.post # request[r].post
            /\ request[r].pc \notin {"store", "save", "url"}

\* C7: one request has failed in the decoder and another was turned down
\* by the form.
NoPartialOutputReached ==
    \E r, q \in Clients :
        /\ request[r].pc = "failed"
        /\ request[r].upload = Truncated
        /\ request[q].pc = "rendered"
        /\ request[q].upload = Garbage
        /\ request[q].message = "Please upload a valid image file."

\* C8: the returned image is RGB, three channels at every pixel, for every
\* style, depth and output size.
AlwaysRGB ==
    \A c \in DOMAIN call :
        Done(c) =>
            /\ call[c].sketch.mode = "RGB"
            /\ \A i \in DOMAIN call[c].sketch.data : Len(call[c].sketch.data[i]) = 3

\* C8: a call with a style outside the list, the depth shader skipped and
\* no resize has returned.
AlwaysRGBReached ==
    /\ Done("c1")
    /\ sketch_style = "sepia"
    /\ ~call["c1"].shaded
    /\ output_size = "orig"
    /\ call["c1"].sketch.mode = "RGB"

\* C9: every pixel that is foreground (60) in the binarized lines is still
\* foreground after the 3x3 max filter of the trace branch.
MaxFilterKeepsForeground ==
    \A c \in DOMAIN call :
        (call[c].pc = "depth" /\ sketch_style = "trace") =>
            LET lines == LineArray(TraceEdges(call[c].gray))
            IN  \A i \in DOMAIN lines.data :
                    lines.data[i] = 60 => call[c].sketch.data[i] = <<60, 60, 60>>

\* C10: every call returns what it would return when run alone, from the
\* generator as it was seeded.
RunsAsIfAlone ==
    \A c \in DOMAIN call :
        Done(c) =>
            call[c].sketch = PencilSketch(image_file, sketch_style, call[c].depth_arg,
                                          output_size, rng.seed, 0)

=============================================================================
